---- MODULE Spec2Model ----
(***************************************************************************)
(* Product catalog REST service: the routes of service/routes.py over the  *)
(* Product model (service/models.py).  The table of Product rows and the   *)
(* primary-key sequence are the state; each HTTP handler is one action     *)
(* that consumes a request and leaves its response in resp.                *)
(***************************************************************************)
EXTENDS Integers, Sequences, FiniteSets, TLC

VARIABLES table, nextId, req, resp

vars == <<table, nextId, req, resp>>

\* Number of primary keys the sequence hands out before create is cut off.
MaxId == 2

\* ------------------------------------------------------------------------
\* HTTP status codes (service.common.status)
HTTP_200_OK == 200
HTTP_201_CREATED == 201
HTTP_204_NO_CONTENT == 204
HTTP_400_BAD_REQUEST == 400
HTTP_404_NOT_FOUND == 404
HTTP_415_UNSUPPORTED_MEDIA_TYPE == 415
HTTP_500_INTERNAL_SERVER_ERROR == 500

\* Python's None as the value of Product.id of a transient product.
None == 0

\* ------------------------------------------------------------------------
\* Category enum: a member is distinct from its name.
CategoryNames == {"UNKNOWN", "CLOTHS", "FOOD"}

Member(n) == [name |-> n]

Category == {Member(n) : n \in CategoryNames}

\* str.upper() on the strings the requests carry.
upper(s) ==
    CASE s = "food" -> "FOOD"
      [] s = "bogus" -> "BOGUS"
      [] OTHER -> s

\* ------------------------------------------------------------------------
\* Request data.
JSON == "application/json"

\* Content-Type header values; NoHeader: the header is absent.
NoHeader == "<absent>"
ContentTypes == {NoHeader, JSON, "text/plain", "application/json; charset=utf-8"}

AllKeys == {"name", "description", "price", "available", "category"}

\* A request body.  json: the body parses as JSON; keys: the keys present;
\* id: the value of an "id" key (None: no such key); available_is_bool: the
\* JSON type of "available".
Body(json, keys, id, n, d, p, a, ab, c) ==
    [json |-> json, keys |-> keys, id |-> id, name |-> n, description |-> d,
     price |-> p, available |-> a, available_is_bool |-> ab, category |-> c]

ValidBodies ==
    { Body(TRUE, AllKeys, None, "Fedora", "A red hat", 1250, TRUE, TRUE, "CLOTHS"),
      Body(TRUE, AllKeys, 2, "Apple", "A fruit", 99, FALSE, TRUE, "FOOD"),
      Body(TRUE, AllKeys, 1, "Fedora", "A fruit", 99, TRUE, TRUE, "FOOD") }

InvalidBodies ==
    { Body(FALSE, {}, None, "", "", 0, FALSE, FALSE, ""),
      Body(TRUE, AllKeys \ {"name"}, None, "", "A red hat", 1250, TRUE, TRUE, "CLOTHS"),
      Body(TRUE, AllKeys, None, "Fedora", "A red hat", 1250, FALSE, FALSE, "CLOTHS"),
      Body(TRUE, AllKeys, None, "Fedora", "A red hat", 1250, TRUE, TRUE, "BOGUS") }

Bodies == ValidBodies \cup InvalidBodies

NoBody == Body(FALSE, {}, None, "", "", 0, FALSE, FALSE, "")

\* Query string of GET /products.  has: the parameters present.
Args(has, n, c, a) == [has |-> has, name |-> n, category |-> c, available |-> a]

NoArgs == Args({}, "", "", "")

NameArgs == {"", "Fedora"}
CategoryArgs == {"", "food", "bogus"}
AvailableArgs == {"", "true", "false"}

QueryArgs ==
    { Args(h, IF "name" \in h THEN n ELSE "",
              IF "category" \in h THEN c ELSE "",
              IF "available" \in h THEN a ELSE "") :
        h \in SUBSET {"name", "category", "available"},
        n \in NameArgs, c \in CategoryArgs, a \in AvailableArgs }

\* request.args.get(k) is truthy: the parameter is present and not empty.
Truthy(args, k) == k \in args.has /\ args[k] # ""

PathIds == 1 .. MaxId

Prices == {99, 1250}

Request(op, id, ctype, body, args, price) ==
    [op |-> op, id |-> id, content_type |-> ctype, body |-> body, args |-> args,
     price |-> price]

\* ------------------------------------------------------------------------
\* Product model (service/models.py)

\* Product(): a transient instance.
Product ==
    [id |-> None, name |-> "", description |-> "", price |-> 0,
     available |-> FALSE, category |-> Member("UNKNOWN")]

NoProduct == [id |-> None]

Ids(t) == {t[i].id : i \in 1 .. Len(t)}

\* Product.deserialize(data)
ValidData(data) ==
    /\ data.json
    /\ AllKeys \subseteq data.keys
    /\ data.available_is_bool
    /\ data.category \in CategoryNames

deserialize(product, data) ==
    IF ValidData(data)
    THEN [error |-> "",
          product |-> [id |-> product.id, name |-> data.name,
                       description |-> data.description, price |-> data.price,
                       available |-> data.available,
                       category |-> Member(data.category)]]
    ELSE [error |-> "DataValidationError", product |-> product]

\* Product.serialize()
serialize(product) ==
    [id |-> product.id, name |-> product.name, description |-> product.description,
     price |-> product.price, available |-> product.available,
     category |-> product.category.name]

\* Product.create(): the primary key comes from the sequence.
create(t, seq, product) ==
    LET row == [product EXCEPT !.id = seq]
    IN [table |-> Append(t, row), nextId |-> seq + 1, product |-> row]

\* Mutant: update() commits without looking at the id.
update_unchecked(t, product) ==
    [error |-> "",
     table |-> [i \in 1 .. Len(t) |-> IF t[i].id = product.id THEN product ELSE t[i]]]

\* Product.update()
update(t, product) ==
    IF product.id = None
    THEN [error |-> "DataValidationError", table |-> t]
    ELSE [error |-> "",
          table |-> [i \in 1 .. Len(t) |->
                        IF t[i].id = product.id THEN product ELSE t[i]]]

\* Product.delete()
delete(t, product) == SelectSeq(t, LAMBDA row : row.id # product.id)

\* Product.find(product_id)
find(t, product_id) ==
    IF \E i \in 1 .. Len(t) : t[i].id = product_id
    THEN t[CHOOSE i \in 1 .. Len(t) : t[i].id = product_id]
    ELSE NoProduct

\* Product.all()
all(t) == t

\* Product.find_by_name(name)
find_by_name(t, name) == SelectSeq(t, LAMBDA row : row.name = name)

\* Product.find_by_category(category)
find_by_category(t, category) == SelectSeq(t, LAMBDA row : row.category = category)

\* Product.find_by_availability(available): the route hands the query string.
to_bool(s) == CASE s = "true" -> TRUE [] s = "false" -> FALSE

find_by_availability(t, available) ==
    SelectSeq(t, LAMBDA row : row.available = to_bool(available))

\* Product.find_by_price(price)
find_by_price(t, price) == SelectSeq(t, LAMBDA row : row.price = price)

\* ------------------------------------------------------------------------
\* Responses
Response(status, body, message, location) ==
    [status |-> status, body |-> body, message |-> message, location |-> location]

\* f"product with id:{id} not found": id is the builtin, not the path id.
NotFoundMessage == "product with id:<built-in function id> not found"

Serialized(products) == [i \in 1 .. Len(products) |-> serialize(products[i])]

\* Mutant: only the absence of the header is refused.
check_content_type_present(header, content_type) ==
    IF header = NoHeader THEN HTTP_415_UNSUPPORTED_MEDIA_TYPE ELSE 0

\* check_content_type(content_type): 0 when the check passes, else the abort.
check_content_type(header, content_type) ==
    IF header = NoHeader THEN HTTP_415_UNSUPPORTED_MEDIA_TYPE
    ELSE IF header = content_type THEN 0
    ELSE HTTP_415_UNSUPPORTED_MEDIA_TYPE

UnsupportedMediaType(content_type) ==
    Response(HTTP_415_UNSUPPORTED_MEDIA_TYPE, <<>>,
             "Content-Type must be application/json", "")

\* request.get_json() on a body that does not parse
BadRequest == Response(HTTP_400_BAD_REQUEST, <<>>, "Bad Request", "")

\* the DataValidationError handler
ValidationFailed == Response(HTTP_400_BAD_REQUEST, <<>>, "DataValidationError", "")

\* an exception no handler catches
InternalServerError(what) == Response(HTTP_500_INTERNAL_SERVER_ERROR, <<>>, what, "")

\* ------------------------------------------------------------------------
\* Handlers: each yields the table, the sequence and the response.
Outcome(t, seq, r) == [table |-> t, nextId |-> seq, resp |-> r]

\* Mutant: the handler creates the fresh Product() and drops the
\* deserialized fields.
create_products_blank(t, seq, r) ==
    IF check_content_type(r.content_type, JSON) # 0
    THEN Outcome(t, seq, UnsupportedMediaType(JSON))
    ELSE IF ~r.body.json
    THEN Outcome(t, seq, BadRequest)
    ELSE LET d == deserialize(Product, r.body)
         IN IF d.error # ""
            THEN Outcome(t, seq, ValidationFailed)
            ELSE LET c == create(t, seq, Product)
                 IN Outcome(c.table, c.nextId,
                            Response(HTTP_201_CREATED, <<serialize(c.product)>>, "", "/"))

\* POST /products
create_products(t, seq, r) ==
    IF check_content_type(r.content_type, JSON) # 0
    THEN Outcome(t, seq, UnsupportedMediaType(JSON))
    ELSE IF ~r.body.json
    THEN Outcome(t, seq, BadRequest)
    ELSE LET d == deserialize(Product, r.body)
         IN IF d.error # ""
            THEN Outcome(t, seq, ValidationFailed)
            ELSE LET c == create(t, seq, d.product)
                 IN Outcome(c.table, c.nextId,
                            Response(HTTP_201_CREATED, <<serialize(c.product)>>, "", "/"))

\* Mutant: the availability string is turned to a boolean by its
\* truthiness, so "false" selects the available products too.
read_all_products_truthy(t, seq, r) ==
    IF Truthy(r.args, "name")
    THEN Outcome(t, seq, Response(HTTP_200_OK,
                                  Serialized(find_by_name(t, r.args.name)), "", ""))
    ELSE IF Truthy(r.args, "category")
    THEN IF upper(r.args.category) \in CategoryNames
         THEN Outcome(t, seq, Response(HTTP_200_OK,
                  Serialized(find_by_category(t, Member(upper(r.args.category)))),
                  "", ""))
         ELSE Outcome(t, seq, InternalServerError("AttributeError"))
    ELSE IF Truthy(r.args, "available")
    THEN Outcome(t, seq, Response(HTTP_200_OK,
                  Serialized(find_by_availability(t, "true")), "", ""))
    ELSE Outcome(t, seq, Response(HTTP_200_OK, Serialized(all(t)), "", ""))

\* Mutant: the category parameter is looked at before the name parameter.
read_all_products_category_first(t, seq, r) ==
    IF Truthy(r.args, "category")
    THEN IF upper(r.args.category) \in CategoryNames
         THEN Outcome(t, seq, Response(HTTP_200_OK,
                  Serialized(find_by_category(t, Member(upper(r.args.category)))),
                  "", ""))
         ELSE Outcome(t, seq, InternalServerError("AttributeError"))
    ELSE IF Truthy(r.args, "name")
    THEN Outcome(t, seq, Response(HTTP_200_OK,
                                  Serialized(find_by_name(t, r.args.name)), "", ""))
    ELSE IF Truthy(r.args, "available")
    THEN Outcome(t, seq, Response(HTTP_200_OK,
                  Serialized(find_by_availability(t, r.args.available)), "", ""))
    ELSE Outcome(t, seq, Response(HTTP_200_OK, Serialized(all(t)), "", ""))

\* GET /products
read_all_products(t, seq, r) ==
    IF Truthy(r.args, "name")
    THEN Outcome(t, seq, Response(HTTP_200_OK,
                                  Serialized(find_by_name(t, r.args.name)), "", ""))
    ELSE IF Truthy(r.args, "category")
    THEN IF upper(r.args.category) \in CategoryNames
         THEN Outcome(t, seq, Response(HTTP_200_OK,
                  Serialized(find_by_category(t, Member(upper(r.args.category)))),
                  "", ""))
         ELSE Outcome(t, seq, InternalServerError("AttributeError"))
    ELSE IF Truthy(r.args, "available")
    THEN Outcome(t, seq, Response(HTTP_200_OK,
                  Serialized(find_by_availability(t, r.args.available)), "", ""))
    ELSE Outcome(t, seq, Response(HTTP_200_OK, Serialized(all(t)), "", ""))

\* GET /products/<product_id>
read_product(t, seq, r) ==
    LET product == find(t, r.id)
    IN IF product = NoProduct
       THEN Outcome(t, seq, Response(HTTP_404_NOT_FOUND, <<>>, NotFoundMessage, ""))
       ELSE Outcome(t, seq, Response(HTTP_200_OK, <<serialize(product)>>, "", ""))

\* Mutant: a PUT to an id that is not stored creates the product (upsert).
update_products_upsert(t, seq, r) ==
    IF check_content_type(r.content_type, JSON) # 0
    THEN Outcome(t, seq, UnsupportedMediaType(JSON))
    ELSE IF ~r.body.json
    THEN Outcome(t, seq, BadRequest)
    ELSE LET product == find(t, r.id)
             d == deserialize(IF product = NoProduct
                              THEN [Product EXCEPT !.id = r.id] ELSE product, r.body)
         IN IF d.error # ""
            THEN Outcome(t, seq, ValidationFailed)
            ELSE IF product = NoProduct
                 THEN Outcome(Append(t, d.product), seq,
                              Response(HTTP_200_OK, <<serialize(d.product)>>, "", "/"))
                 ELSE Outcome(update(t, d.product).table, seq,
                              Response(HTTP_200_OK, <<serialize(d.product)>>, "", "/"))

\* Mutant: the id the body carries is written into the product.
update_products_body_id(t, seq, r) ==
    IF check_content_type(r.content_type, JSON) # 0
    THEN Outcome(t, seq, UnsupportedMediaType(JSON))
    ELSE IF ~r.body.json
    THEN Outcome(t, seq, BadRequest)
    ELSE LET product == find(t, r.id)
         IN IF product = NoProduct
            THEN Outcome(t, seq, Response(HTTP_404_NOT_FOUND, <<>>, NotFoundMessage, ""))
            ELSE LET d == deserialize(product, r.body)
                     p == IF r.body.id # None
                          THEN [d.product EXCEPT !.id = r.body.id] ELSE d.product
                 IN IF d.error # ""
                    THEN Outcome(t, seq, ValidationFailed)
                    ELSE Outcome([i \in 1 .. Len(t) |->
                                     IF t[i].id = r.id THEN p ELSE t[i]], seq,
                                 Response(HTTP_200_OK, <<serialize(p)>>, "", "/"))

\* PUT /products/<product_id>
update_products(t, seq, r) ==
    IF check_content_type(r.content_type, JSON) # 0
    THEN Outcome(t, seq, UnsupportedMediaType(JSON))
    ELSE IF ~r.body.json
    THEN Outcome(t, seq, BadRequest)
    ELSE LET product == find(t, r.id)
         IN IF product = NoProduct
            THEN Outcome(t, seq, Response(HTTP_404_NOT_FOUND, <<>>, NotFoundMessage, ""))
            ELSE LET d == deserialize(product, r.body)
                 IN IF d.error # ""
                    THEN Outcome(t, seq, ValidationFailed)
                    ELSE LET u == update(t, d.product)
                         IN IF u.error # ""
                            THEN Outcome(t, seq, ValidationFailed)
                            ELSE Outcome(u.table, seq,
                                     Response(HTTP_200_OK, <<serialize(d.product)>>,
                                              "", "/"))

\* Mutant: the delete is issued on the whole query, not on the product.
delete_products_all(t, seq, r) ==
    LET product == find(t, r.id)
    IN IF product = NoProduct
       THEN Outcome(t, seq, Response(HTTP_404_NOT_FOUND, <<>>, NotFoundMessage, ""))
       ELSE Outcome(<<>>, seq, Response(HTTP_204_NO_CONTENT, <<>>, "", ""))

\* DELETE /products/<product_id>
delete_products(t, seq, r) ==
    LET product == find(t, r.id)
    IN IF product = NoProduct
       THEN Outcome(t, seq, Response(HTTP_404_NOT_FOUND, <<>>, NotFoundMessage, ""))
       ELSE Outcome(delete(t, product), seq, Response(HTTP_204_NO_CONTENT, <<>>, "", ""))

\* Product.update() called on a transient product (id None), as the model's
\* test does.
update_transient(t, seq, r) ==
    LET d == deserialize(Product, r.body)
        u == update(t, d.product)
    IN Outcome(u.table, seq, Response(0, <<>>, u.error, ""))

\* Product.find_by_price(price) called on the model.
query_by_price(t, seq, r) ==
    Outcome(t, seq, Response(0, Serialized(find_by_price(t, r.price)), "", ""))

\* ------------------------------------------------------------------------
\* The state machine
Init ==
    /\ table = <<>>
    /\ nextId = 1
    /\ req = Request("", None, NoHeader, NoBody, NoArgs, 0)
    /\ resp = Response(0, <<>>, "", "")

Handle(r, o) ==
    /\ req' = r
    /\ table' = o.table
    /\ nextId' = o.nextId
    /\ resp' = o.resp

Post ==
    \E ct \in ContentTypes, b \in Bodies :
        LET r == Request("POST", None, ct, b, NoArgs, 0)
        IN /\ nextId <= MaxId
           /\ Handle(r, create_products(table, nextId, r))

List ==
    \E a \in QueryArgs :
        LET r == Request("LIST", None, NoHeader, NoBody, a, 0)
        IN Handle(r, read_all_products(table, nextId, r))

Get ==
    \E id \in PathIds :
        LET r == Request("GET", id, NoHeader, NoBody, NoArgs, 0)
        IN Handle(r, read_product(table, nextId, r))

Put ==
    \E id \in PathIds, ct \in ContentTypes, b \in Bodies :
        LET r == Request("PUT", id, ct, b, NoArgs, 0)
        IN Handle(r, update_products(table, nextId, r))

Delete ==
    \E id \in PathIds :
        LET r == Request("DELETE", id, NoHeader, NoBody, NoArgs, 0)
        IN Handle(r, delete_products(table, nextId, r))

UpdateTransient ==
    \E b \in ValidBodies :
        LET r == Request("Product.update", None, NoHeader, b, NoArgs, 0)
        IN Handle(r, update_transient(table, nextId, r))

FindByPrice ==
    \E p \in Prices :
        LET r == Request("Product.find_by_price", None, NoHeader, NoBody, NoArgs, p)
        IN Handle(r, query_by_price(table, nextId, r))

Next == Post \/ List \/ Get \/ Put \/ Delete \/ UpdateTransient \/ FindByPrice

Spec == Init /\ [][Next]_vars

\* ------------------------------------------------------------------------
\* Properties

\* The five fields of a stored product equal those of a payload.
SameFields(product, data) ==
    /\ product.name = data.name
    /\ product.description = data.description
    /\ product.price = data.price
    /\ product.available = data.available
    /\ product.category = Member(data.category)

\* The five fields of a serialized product equal those of a payload.
SameJsonFields(json, data) ==
    /\ json.name = data.name
    /\ json.description = data.description
    /\ json.price = data.price
    /\ json.available = data.available
    /\ json.category = data.category

Unchanged == table' = table /\ nextId' = nextId

\* body holds exactly the rows of t that Match selects, each once.
ExactlyMatching(body, t, Match(_)) ==
    /\ \A i \in 1 .. Len(t) :
          Match(t[i]) <=> \E j \in 1 .. Len(body) : body[j] = serialize(t[i])
    /\ \A j \in 1 .. Len(body) : \E i \in 1 .. Len(t) : body[j] = serialize(t[i])
    /\ Len(body) = Cardinality({i \in 1 .. Len(t) : Match(t[i])})

\* C1: a POST of a valid payload with Content-Type application/json answers
\* 201 with a non-null id; find(id) and GET /products/{id} in the state the
\* POST leaves then give a product whose name, description, price, available
\* and category equal the payload's.
C1_CreateThenFind ==
    (req.op = "POST" /\ req.content_type = JSON /\ ValidData(req.body)) =>
        /\ resp.status = HTTP_201_CREATED
        /\ Len(resp.body) = 1
        /\ LET id == resp.body[1].id
               got == read_product(table, nextId,
                          Request("GET", id, NoHeader, NoBody, NoArgs, 0)).resp
           IN /\ id # None
              /\ find(table, id) # NoProduct
              /\ SameFields(find(table, id), req.body)
              /\ got.status = HTTP_200_OK
              /\ Len(got.body) = 1
              /\ got.body[1].id = id
              /\ SameJsonFields(got.body[1], req.body)

C1_Witness ==
    /\ req.op = "POST"
    /\ resp.status = HTTP_201_CREATED
    /\ Len(table) = 2
    /\ req.body.category = "FOOD"

\* C2: a DELETE answering 204 leaves no product under the id (find gives
\* not-found, all() does not hold it) and every other row as it was; and an
\* id that is not stored becomes stored only by a create.
C2_DeleteRemovesOnlyThat ==
    [][ /\ (req'.op = "DELETE" /\ resp'.status = HTTP_204_NO_CONTENT) =>
              /\ find(table, req'.id) # NoProduct
              /\ find(table', req'.id) = NoProduct
              /\ \A j \in 1 .. Len(all(table')) : all(table')[j].id # req'.id
              /\ \A i \in 1 .. Len(table) :
                    table[i].id # req'.id =>
                        \E j \in 1 .. Len(table') : table'[j] = table[i]
              /\ Len(table') = Len(table) - 1
              /\ nextId' = nextId
        /\ \A id \in PathIds :
              (find(table, id) = NoProduct /\ find(table', id) # NoProduct) =>
                  (req'.op = "POST" /\ resp'.status = HTTP_201_CREATED)
      ]_vars

C2_Witness ==
    /\ req.op = "DELETE"
    /\ resp.status = HTTP_204_NO_CONTENT
    /\ Len(table) = 1
    /\ nextId = 3

\* C3: DELETE /products/{id} answers 204 for every id, stored or not.
C3_DeleteAlways204 ==
    req.op = "DELETE" => resp.status = HTTP_204_NO_CONTENT

\* C4: in every store state and for every filter value, find_by_name,
\* find_by_category, find_by_availability and find_by_price return exactly
\* the products of all() whose field equals the value, and GET /products
\* with one of name, category, available answers with exactly those; the
\* availability arrives as "true" or "false" and is matched as the boolean.
C4_FiltersExact ==
    /\ \A n \in NameArgs \cup {"Apple"} :
          ExactlyMatching(Serialized(find_by_name(table, n)), all(table),
                          LAMBDA row : row.name = n)
    /\ \A c \in CategoryNames :
          ExactlyMatching(Serialized(find_by_category(table, Member(c))), all(table),
                          LAMBDA row : row.category.name = c)
    /\ \A a \in {"true", "false"} :
          ExactlyMatching(Serialized(find_by_availability(table, a)), all(table),
                          LAMBDA row : row.available = (a = "true"))
    /\ \A p \in Prices :
          ExactlyMatching(Serialized(find_by_price(table, p)), all(table),
                          LAMBDA row : row.price = p)
    /\ (req.op = "LIST" /\ req.args.has = {"name"} /\ req.args.name # "") =>
          /\ resp.status = HTTP_200_OK
          /\ ExactlyMatching(resp.body, all(table),
                             LAMBDA row : row.name = req.args.name)
    /\ (req.op = "LIST" /\ req.args.has = {"category"}
            /\ upper(req.args.category) \in CategoryNames) =>
          /\ resp.status = HTTP_200_OK
          /\ ExactlyMatching(resp.body, all(table),
                             LAMBDA row : row.category.name = upper(req.args.category))
    /\ (req.op = "LIST" /\ req.args.has = {"available"} /\ req.args.available # "") =>
          /\ resp.status = HTTP_200_OK
          /\ ExactlyMatching(resp.body, all(table),
                             LAMBDA row : row.available = (req.args.available = "true"))
    /\ req.op = "Product.find_by_price" =>
          ExactlyMatching(resp.body, all(table), LAMBDA row : row.price = req.price)

C4_Witness ==
    /\ req.op = "LIST"
    /\ req.args.has = {"available"}
    /\ req.args.available = "false"
    /\ Len(table) = 2
    /\ Len(resp.body) = 1

\* C5: a POST or PUT whose Content-Type is missing or is not exactly
\* application/json answers 415 and changes nothing in the store.
C5_WrongContentType415 ==
    [][ (req'.op \in {"POST", "PUT"} /\ req'.content_type # JSON) =>
            /\ resp'.status = HTTP_415_UNSUPPORTED_MEDIA_TYPE
            /\ Unchanged
      ]_vars

C5_Witness ==
    /\ req.op = "PUT"
    /\ req.content_type = "application/json; charset=utf-8"
    /\ resp.status = HTTP_415_UNSUPPORTED_MEDIA_TYPE
    /\ find(table, req.id) # NoProduct
    /\ ValidData(req.body)
    /\ ~SameFields(find(table, req.id), req.body)

\* C6: update on a product whose id is null fails with DataValidationError
\* and changes nothing in the store.
C6_UpdateWithoutIdFails ==
    [][ req'.op = "Product.update" =>
            /\ resp'.message = "DataValidationError"
            /\ Unchanged
      ]_vars

C6_Witness ==
    /\ req.op = "Product.update"
    /\ resp.message = "DataValidationError"
    /\ Len(table) = 2

\* C7 as stated: a PUT with Content-Type application/json to an id that is
\* not stored answers 404 with the not-found message, store unchanged.
C7_PutMissing404 ==
    [][ (req'.op = "PUT" /\ req'.content_type = JSON
            /\ find(table, req'.id) = NoProduct) =>
            /\ resp'.status = HTTP_404_NOT_FOUND
            /\ resp'.message = NotFoundMessage
            /\ Unchanged
      ]_vars

\* C7 amended: a PUT with Content-Type application/json to an id that is
\* not stored answers 404 with the not-found message when its body parses
\* as JSON and 400 when it does not; either way the store is unchanged, no
\* product is created under the id.
C7_PutMissing404ParsedBody ==
    [][ (req'.op = "PUT" /\ req'.content_type = JSON
            /\ find(table, req'.id) = NoProduct) =>
            /\ req'.body.json =>
                  /\ resp'.status = HTTP_404_NOT_FOUND
                  /\ resp'.message = NotFoundMessage
            /\ ~req'.body.json => resp'.status = HTTP_400_BAD_REQUEST
            /\ Unchanged
            /\ find(table', req'.id) = NoProduct
      ]_vars

C7_Witness ==
    /\ req.op = "PUT"
    /\ req.content_type = JSON
    /\ ValidData(req.body)
    /\ resp.status = HTTP_404_NOT_FOUND
    /\ Len(table) = 1
    /\ nextId = 3

\* C8: GET /products?category=X with X not the name of a Category member,
\* upper-cased, is rejected with 400.
C8_UnknownCategory400 ==
    (req.op = "LIST" /\ ~Truthy(req.args, "name") /\ Truthy(req.args, "category")
        /\ upper(req.args.category) \notin CategoryNames) =>
        resp.status = HTTP_400_BAD_REQUEST

\* C9: every stored product has a non-null id, no two share an id, no
\* request other than a create adds an id, and a PUT answering 200 keeps
\* the set of ids, answers with the path id and leaves the updated product
\* under the path id, whatever id the body carries.
C9_IdsStable ==
    [][ /\ \A i \in 1 .. Len(table') : table'[i].id # None
        /\ \A i, j \in 1 .. Len(table') : table'[i].id = table'[j].id => i = j
        /\ ~(req'.op = "POST" /\ resp'.status = HTTP_201_CREATED) =>
              Ids(table') \subseteq Ids(table)
        /\ (req'.op = "PUT" /\ resp'.status = HTTP_200_OK) =>
              /\ Ids(table') = Ids(table)
              /\ Len(table') = Len(table)
              /\ resp'.body[1].id = req'.id
              /\ find(table', req'.id) # NoProduct
              /\ SameFields(find(table', req'.id), req'.body)
              /\ \A i \in 1 .. Len(table) :
                    table[i].id # req'.id => table'[i] = table[i]
      ]_vars

C9_Witness ==
    /\ req.op = "PUT"
    /\ resp.status = HTTP_200_OK
    /\ req.body.id # None
    /\ req.body.id # req.id
    /\ Len(table) = 2

====
